---- MODULE Spec2Model ----
(***************************************************************************)
(* Model of ipware/utils.py: normalisation, validation, classification,    *)
(* chain parsing and best-candidate selection of client IP addresses.      *)
(*                                                                         *)
(* A Python str is a sequence of one-character strings.  The character     *)
(* "NUL" stands for U+0000 and "U+00E9" for a non-ASCII letter.  Python's  *)
(* None is the one-element sequence None, which is no str.                 *)
(*                                                                         *)
(* The build is CPython 3 on a POSIX libc: socket.inet_pton exists, so the *)
(* `except AttributeError` handlers of utils.py (marked `pragma: no        *)
(* cover`) never run, and socket.error is OSError.                         *)
(***************************************************************************)
EXTENDS Integers, Sequences, FiniteSets, TLC

None == <<"None">>

(***************************************************************************)
(* str methods used by utils.py                                            *)
(***************************************************************************)
Whitespace == {" ", "\t"}

UpperCase ==
    <<"A", "B", "C", "D", "E", "F", "G", "H", "I", "J", "K", "L", "M",
      "N", "O", "P", "Q", "R", "S", "T", "U", "V", "W", "X", "Y", "Z">>

LowerCase ==
    <<"a", "b", "c", "d", "e", "f", "g", "h", "i", "j", "k", "l", "m",
      "n", "o", "p", "q", "r", "s", "t", "u", "v", "w", "x", "y", "z">>

RECURSIVE lstrip(_)
lstrip(s) ==
    IF s # <<>> /\ Head(s) \in Whitespace THEN lstrip(Tail(s)) ELSE s

RECURSIVE rstrip(_)
rstrip(s) ==
    IF s # <<>> /\ s[Len(s)] \in Whitespace
    THEN rstrip(SubSeq(s, 1, Len(s) - 1))
    ELSE s

strip(s) == rstrip(lstrip(s))

lower_char(c) ==
    IF \E k \in DOMAIN UpperCase : UpperCase[k] = c
    THEN LowerCase[CHOOSE k \in DOMAIN UpperCase : UpperCase[k] = c]
    ELSE c

\* s.replace(old, new) for one-character old and new
replace_char(s, old, new) == [i \in DOMAIN s |-> IF s[i] = old THEN new ELSE s[i]]

lower(s) == [i \in DOMAIN s |-> lower_char(s[i])]

startswith(s, p) == Len(p) <= Len(s) /\ SubSeq(s, 1, Len(p)) = p

startswith_any(s, prefixes) == \E p \in prefixes : startswith(s, p)

\* s.split(sep) for a one-character separator: always at least one field
RECURSIVE split(_, _)
split(s, sep) ==
    IF \A i \in DOMAIN s : s[i] # sep
    THEN <<s>>
    ELSE LET k == CHOOSE i \in DOMAIN s :
                      s[i] = sep /\ \A j \in 1..(i - 1) : s[j] # sep
         IN  <<SubSeq(s, 1, k - 1)>> \o split(SubSeq(s, k + 1, Len(s)), sep)

\* s.replace(old, ''): every non-overlapping occurrence, left to right
RECURSIVE remove_all(_, _)
remove_all(s, old) ==
    IF s = <<>> THEN <<>>
    ELSE IF startswith(s, old)
         THEN remove_all(SubSeq(s, Len(old) + 1, Len(s)), old)
         ELSE <<Head(s)>> \o remove_all(Tail(s), old)

(***************************************************************************)
(* The socket module: inet_pton / inet_ntop of the C library               *)
(***************************************************************************)
Digits == <<"0", "1", "2", "3", "4", "5", "6", "7", "8", "9">>

HexDigits == Digits \o <<"a", "b", "c", "d", "e", "f">>

digit_value(c) ==
    IF \E k \in DOMAIN Digits : Digits[k] = c
    THEN (CHOOSE k \in DOMAIN Digits : Digits[k] = c) - 1
    ELSE -1

hex_digit_value(c) ==
    LET l == lower_char(c)
    IN  IF \E k \in DOMAIN HexDigits : HexDigits[k] = l
        THEN (CHOOSE k \in DOMAIN HexDigits : HexDigits[k] = l) - 1
        ELSE -1

\* the parser's failure: no address
BadAddr == <<-1>>

\* inet_pton4: strict dotted quad, no leading zeros, four octets <= 255.
\* octs: octets completed or in progress; saw: a digit of the current octet
RECURSIVE pton4_scan(_, _, _, _)
pton4_scan(s, i, octs, saw) ==
    IF i > Len(s)
    THEN IF Len(octs) < 4 THEN BadAddr ELSE octs
    ELSE LET ch == s[i]
             d  == digit_value(ch)
         IN  IF d >= 0
             THEN IF saw
                  THEN LET cur == octs[Len(octs)]
                           new == cur * 10 + d
                       IN  IF cur = 0 \/ new > 255 THEN BadAddr
                           ELSE pton4_scan(s, i + 1,
                                    [octs EXCEPT ![Len(octs)] = new], TRUE)
                  ELSE IF Len(octs) + 1 > 4 THEN BadAddr
                       ELSE pton4_scan(s, i + 1, Append(octs, d), TRUE)
             ELSE IF ch = "." /\ saw
                  THEN IF Len(octs) = 4 THEN BadAddr
                       ELSE pton4_scan(s, i + 1, octs, FALSE)
                  ELSE BadAddr

inet_pton4(s) == pton4_scan(s, 1, <<>>, FALSE)

\* "%u"
RECURSIVE Dec(_)
Dec(n) == IF n < 10 THEN <<Digits[n + 1]>>
          ELSE Dec(n \div 10) \o <<Digits[(n % 10) + 1]>>

\* "%x"
RECURSIVE Hex(_)
Hex(n) == IF n < 16 THEN <<HexDigits[n + 1]>>
          ELSE Hex(n \div 16) \o <<HexDigits[(n % 16) + 1]>>

inet_ntop4(o) ==
    Dec(o[1]) \o <<".">> \o Dec(o[2]) \o <<".">> \o Dec(o[3]) \o <<".">> \o Dec(o[4])

\* inet_pton6.  words: 16-bit groups stored so far; val, xd: value and
\* digit count of the group being read; colonp: number of groups stored
\* when "::" was seen, or -1; curtok: index where the current group starts.
RECURSIVE pton6_scan(_, _, _, _, _, _, _)
pton6_scan(s, i, words, val, xd, colonp, curtok) ==
    LET finish(ws) ==
            IF colonp # -1
            THEN IF Len(ws) = 8 THEN BadAddr
                 ELSE SubSeq(ws, 1, colonp)
                      \o [k \in 1..(8 - Len(ws)) |-> 0]
                      \o SubSeq(ws, colonp + 1, Len(ws))
            ELSE IF Len(ws) # 8 THEN BadAddr ELSE ws
    IN
    IF i > Len(s)
    THEN IF xd > 0
         THEN IF Len(words) + 1 > 8 THEN BadAddr
              ELSE finish(Append(words, val))
         ELSE finish(words)
    ELSE LET ch == s[i]
             d  == hex_digit_value(ch)
         IN  IF d >= 0
             THEN IF xd = 4 THEN BadAddr
                  ELSE pton6_scan(s, i + 1, words, val * 16 + d, xd + 1,
                                  colonp, curtok)
             ELSE IF ch = ":"
             THEN IF xd = 0
                  THEN IF colonp # -1 THEN BadAddr
                       ELSE pton6_scan(s, i + 1, words, val, xd,
                                       Len(words), i + 1)
                  ELSE IF i = Len(s) THEN BadAddr
                  ELSE IF Len(words) + 1 > 8 THEN BadAddr
                  ELSE pton6_scan(s, i + 1, Append(words, val), 0, 0,
                                  colonp, i + 1)
             ELSE IF ch = "." /\ Len(words) + 2 <= 8
                     /\ inet_pton4(SubSeq(s, curtok, Len(s))) # BadAddr
             THEN LET o == inet_pton4(SubSeq(s, curtok, Len(s)))
                  IN  finish(words \o <<o[1] * 256 + o[2], o[3] * 256 + o[4]>>)
             ELSE BadAddr

inet_pton6(s) ==
    IF s = <<>> THEN BadAddr
    ELSE IF s[1] = ":"
         THEN IF Len(s) < 2 \/ s[2] # ":" THEN BadAddr
              ELSE pton6_scan(s, 2, <<>>, 0, 0, -1, 2)
         ELSE pton6_scan(s, 1, <<>>, 0, 0, -1, 1)

\* length of the run of zero groups of w that starts at group i
RECURSIVE zero_run(_, _)
zero_run(w, i) == IF i > 8 \/ w[i] # 0 THEN 0 ELSE 1 + zero_run(w, i + 1)

\* first longest run of at least two zero groups: <<base, len>> or <<0, 0>>
best_run(w) ==
    LET starts == {i \in 1..8 : w[i] = 0 /\ (i = 1 \/ w[i - 1] # 0)}
        long   == {i \in starts : zero_run(w, i) >= 2}
    IN  IF long = {} THEN <<0, 0>>
        ELSE LET b == CHOOSE i \in long :
                          \A j \in long :
                              \/ zero_run(w, i) > zero_run(w, j)
                              \/ zero_run(w, i) = zero_run(w, j) /\ i <= j
             IN  <<b, zero_run(w, b)>>

RECURSIVE ntop6_emit(_, _, _)
ntop6_emit(w, i, best) ==
    LET base == best[1]
        len  == best[2]
    IN  IF i > 8
        THEN IF base # 0 /\ base + len = 9 THEN <<":">> ELSE <<>>
        ELSE IF base # 0 /\ i >= base /\ i < base + len
             THEN (IF i = base THEN <<":">> ELSE <<>>)
                  \o ntop6_emit(w, i + 1, best)
             ELSE (IF i # 1 THEN <<":">> ELSE <<>>)
                  \o (IF i = 7 /\ base = 1
                         /\ (len = 6 \/ (len = 5 /\ w[6] = 65535))
                      THEN inet_ntop4(<<w[7] \div 256, w[7] % 256,
                                        w[8] \div 256, w[8] % 256>>)
                      ELSE Hex(w[i]) \o ntop6_emit(w, i + 1, best))

inet_ntop6(w) == ntop6_emit(w, 1, best_run(w))

\* What a socket call does: return a value or raise.  CPython converts the
\* str argument to a C string first and raises ValueError ("embedded null
\* character") when it holds U+0000; a string the C parser rejects raises
\* socket.error.
Returns(v) == [exc |-> "", val |-> v]

Raises(e) == [exc |-> e, val |-> None]

\* the call returned True
Holds(r) == r.exc = "" /\ r.val

socket_inet_pton(af, s) ==
    IF \E i \in DOMAIN s : s[i] = "NUL" THEN Raises("ValueError")
    ELSE LET a == IF af = "AF_INET" THEN inet_pton4(s) ELSE inet_pton6(s)
         IN  IF a = BadAddr THEN Raises("socket.error") ELSE Returns(a)

socket_inet_ntop(af, a) ==
    IF af = "AF_INET" THEN inet_ntop4(a) ELSE inet_ntop6(a)

(***************************************************************************)
(* ipware/defaults.py: the static prefix tables                            *)
(***************************************************************************)
IPWARE_PRIVATE_IP_PREFIX ==
    { <<"0", ".">>,
      <<"1", "0", ".">>,
      <<"1", "6", "9", ".", "2", "5", "4", ".">>,
      <<"1", "7", "2", ".", "1", "6", ".">>,
      <<"1", "7", "2", ".", "1", "7", ".">>,
      <<"1", "7", "2", ".", "1", "8", ".">>,
      <<"1", "7", "2", ".", "1", "9", ".">>,
      <<"1", "7", "2", ".", "2", "0", ".">>,
      <<"1", "7", "2", ".", "2", "1", ".">>,
      <<"1", "7", "2", ".", "2", "2", ".">>,
      <<"1", "7", "2", ".", "2", "3", ".">>,
      <<"1", "7", "2", ".", "2", "4", ".">>,
      <<"1", "7", "2", ".", "2", "5", ".">>,
      <<"1", "7", "2", ".", "2", "6", ".">>,
      <<"1", "7", "2", ".", "2", "7", ".">>,
      <<"1", "7", "2", ".", "2", "8", ".">>,
      <<"1", "7", "2", ".", "2", "9", ".">>,
      <<"1", "7", "2", ".", "3", "0", ".">>,
      <<"1", "7", "2", ".", "3", "1", ".">>,
      <<"1", "9", "2", ".", "0", ".", "2", ".">>,
      <<"1", "9", "2", ".", "1", "6", "8", ".">>,
      <<"2", "5", "5", ".", "2", "5", "5", ".", "2", "5", "5", ".">>,
      <<"2", "0", "0", "1", ":", "d", "b", "8", ":">>,
      <<"f", "c", "0", "0", ":">>,
      <<"f", "e", "8", "0", ":">>,
      <<"f", "f", "0", "0", ":">> }

IPWARE_LOOPBACK_PREFIX ==
    { <<"1", "2", "7", ".">>,
      <<":", ":", "1">> }

\* the loopback prefixes are non-public too
IPWARE_NON_PUBLIC_IP_PREFIX == IPWARE_PRIVATE_IP_PREFIX \cup IPWARE_LOOPBACK_PREFIX

(***************************************************************************)
(* ipware/utils.py                                                         *)
(***************************************************************************)
MappedPrefix == <<":", ":", "f", "f", "f", "f", ":">>

\* `not x` / `x or y` on a value that is None or a str
Falsy(x) == x = None \/ x = <<>>

cleanup_ip(ip) ==
    LET s  == strip(ip)
        r4 == socket_inet_pton("AF_INET", s)
    IN  IF r4.exc = "ValueError" THEN Raises("ValueError")
        ELSE LET clean4 == IF r4.exc = "socket.error" THEN None
                           ELSE socket_inet_ntop("AF_INET", r4.val)
             IN  IF ~Falsy(clean4) THEN Returns(clean4)
                 ELSE LET r6 == socket_inet_pton("AF_INET6", s)
                      IN  IF r6.exc = "ValueError" THEN Raises("ValueError")
                          ELSE IF r6.exc = "socket.error"
                               THEN Returns(IF Falsy(clean4) THEN s ELSE clean4)
                          ELSE LET clean6 == socket_inet_ntop("AF_INET6", r6.val)
                               IN  IF startswith(clean6, MappedPrefix)
                                   THEN Returns(remove_all(clean6, MappedPrefix))
                                   ELSE Returns(IF Falsy(clean6) THEN s ELSE clean6)

is_valid_ipv4(ip_str) ==
    LET r == socket_inet_pton("AF_INET", ip_str)
    IN  IF r.exc = "socket.error" THEN Returns(FALSE)
        ELSE IF r.exc # "" THEN Raises(r.exc)
        ELSE Returns(TRUE)

is_valid_ipv6(ip_str) ==
    LET r == socket_inet_pton("AF_INET6", ip_str)
    IN  IF r.exc = "socket.error" THEN Returns(FALSE)
        ELSE IF r.exc # "" THEN Raises(r.exc)
        ELSE Returns(TRUE)

is_valid_ip(ip_str) ==
    LET v4 == is_valid_ipv4(ip_str)
    IN  IF v4.exc # "" THEN v4
        ELSE IF v4.val THEN Returns(TRUE)
        ELSE is_valid_ipv6(ip_str)

is_private_ip(ip_str) == startswith_any(ip_str, IPWARE_NON_PUBLIC_IP_PREFIX)

is_public_ip(ip_str) == ~is_private_ip(ip_str)

is_loopback_ip(ip_str) == startswith_any(ip_str, IPWARE_LOOPBACK_PREFIX)

\* get_request_meta without the hyphen variant as the default
get_request_meta_no_variant(META, key) ==
    LET value == strip(IF key \in DOMAIN META THEN META[key] ELSE <<>>)
    IN  IF value = <<>> THEN Returns(None) ELSE Returns(value)

\* META: a function from the keys present to their str values
get_request_meta(META, key) ==
    LET fallback == IF replace_char(key, "_", "-") \in DOMAIN META
                    THEN META[replace_char(key, "_", "-")] ELSE <<>>
        value    == strip(IF key \in DOMAIN META THEN META[key] ELSE fallback)
    IN  IF value = <<>> THEN Returns(None) ELSE Returns(value)

\* the loop of get_ips_from_string over the fields of ip_str.split(',')
RECURSIVE ip_list_of(_)
ip_list_of(fields) ==
    IF fields = <<>> THEN <<>>
    ELSE LET clean_ip == lower(strip(Head(fields)))
         IN  (IF clean_ip # <<>> THEN <<clean_ip>> ELSE <<>>)
             \o ip_list_of(Tail(fields))

get_ips_from_string(ip_str) ==
    LET ip_list  == ip_list_of(split(ip_str, ","))
        ip_count == Len(ip_list)
        rejected == Returns([ips |-> <<>>, count |-> 0])
    IN  IF ip_count > 0
        THEN LET first == is_valid_ip(ip_list[1])
             IN  IF first.exc # "" THEN Raises(first.exc)
                 ELSE IF ~first.val THEN rejected
                 ELSE LET last == is_valid_ip(ip_list[ip_count])
                      IN  IF last.exc # "" THEN Raises(last.exc)
                          ELSE IF ~last.val THEN rejected
                          ELSE Returns([ips |-> ip_list, count |-> ip_count])
        ELSE rejected

get_ip_info(ip_str) ==
    LET c == cleanup_ip(ip_str)
    IN  IF c.exc # "" THEN Raises(c.exc)
        ELSE LET v == is_valid_ip(c.val)
             IN  IF v.exc # "" THEN Raises(v.exc)
                 ELSE IF v.val
                      THEN Returns([ip |-> c.val, is_routable_ip |-> is_public_ip(c.val)])
                      ELSE Returns([ip |-> None, is_routable_ip |-> FALSE])

\* get_best_ip without the private-over-loopback guard
get_best_ip_no_private_guard(last_ip, next_ip) ==
    IF last_ip = None THEN Returns(next_ip)
    ELSE LET l == cleanup_ip(last_ip)
         IN  IF l.exc # "" THEN Raises(l.exc)
             ELSE LET n == cleanup_ip(next_ip)
                  IN  IF n.exc # "" THEN Raises(n.exc)
                      ELSE IF is_public_ip(l.val) /\ ~is_public_ip(n.val)
                           THEN Returns(last_ip)
                      ELSE Returns(next_ip)

get_best_ip(last_ip, next_ip) ==
    IF last_ip = None THEN Returns(next_ip)
    ELSE LET l == cleanup_ip(last_ip)
         IN  IF l.exc # "" THEN Raises(l.exc)
             ELSE LET n == cleanup_ip(next_ip)
                  IN  IF n.exc # "" THEN Raises(n.exc)
                      ELSE IF is_public_ip(l.val) /\ ~is_public_ip(n.val)
                           THEN Returns(last_ip)
                      ELSE IF is_private_ip(l.val) /\ is_loopback_ip(n.val)
                           THEN Returns(last_ip)
                      ELSE Returns(next_ip)

(***************************************************************************)
(* Inputs                                                                  *)
(***************************************************************************)
\* most whitespace characters put on each side of an address
MaxPad == 1

\* most comma-separated fields of a header value
MaxChain == 3

\* ::, 203.0.113.5, 8.8.8.8, 100.0.0.1, 2001:4860::8888, ::ffff:8.8.8.8,
\* ::ffff:1:2:3
PublicAddrs ==
    { <<":", ":">>,
      <<"2", "0", "3", ".", "0", ".", "1", "1", "3", ".", "5">>,
      <<"8", ".", "8", ".", "8", ".", "8">>,
      <<"1", "0", "0", ".", "0", ".", "0", ".", "1">>,
      <<"2", "0", "0", "1", ":", "4", "8", "6", "0", ":", ":", "8", "8", "8", "8">>,
      <<":", ":", "f", "f", "f", "f", ":", "8", ".", "8", ".", "8", ".", "8">>,
      <<":", ":", "f", "f", "f", "f", ":", "1", ":", "2", ":", "3">> }

\* 172.16.0.1, 10.0.0.1, 10.0.0.2, 192.168.1.1, fe80::1, FE80::1,
\* 2001:db8::1, ::ffff:10.0.0.1, ::ffff:a00:1, ::ffff:0:0
PrivateAddrs ==
    { <<"1", "7", "2", ".", "1", "6", ".", "0", ".", "1">>,
      <<":", ":", "f", "f", "f", "f", ":", "0", ":", "0">>,
      <<"1", "0", ".", "0", ".", "0", ".", "1">>,
      <<"1", "0", ".", "0", ".", "0", ".", "2">>,
      <<"1", "9", "2", ".", "1", "6", "8", ".", "1", ".", "1">>,
      <<"f", "e", "8", "0", ":", ":", "1">>,
      <<"F", "E", "8", "0", ":", ":", "1">>,
      <<"2", "0", "0", "1", ":", "d", "b", "8", ":", ":", "1">>,
      <<":", ":", "f", "f", "f", "f", ":", "1", "0", ".", "0", ".", "0", ".", "1">>,
      <<":", ":", "f", "f", "f", "f", ":", "a", "0", "0", ":", "1">> }

\* ::1:2:3:4:5, 127.0.0.1, 127.0.0.2, ::1, 0:0:0:0:0:0:0:1,
\* ::ffff:127.0.0.1
LoopbackAddrs ==
    { <<":", ":", "1", ":", "2", ":", "3", ":", "4", ":", "5">>,
      <<"1", "2", "7", ".", "0", ".", "0", ".", "1">>,
      <<"1", "2", "7", ".", "0", ".", "0", ".", "2">>,
      <<":", ":", "1">>,
      <<"0", ":", "0", ":", "0", ":", "0", ":", "0", ":", "0", ":", "0", ":", "1">>,
      <<":", ":", "f", "f", "f", "f", ":", "1", "2", "7", ".", "0", ".", "0", ".", "1">> }

\* "", g, 127.1, 10.g, 127.g, 1.2.3.256, 01.2.3.4, a non-ASCII letter,
\* 8.8.8.8 and 10.0.0.1 each followed by U+0000
NotAddrs ==
    { <<>>,
      <<"g">>,
      <<"1", "2", "7", ".", "1">>,
      <<"1", "0", ".", "g">>,
      <<"1", "2", "7", ".", "g">>,
      <<"1", ".", "2", ".", "3", ".", "2", "5", "6">>,
      <<"0", "1", ".", "2", ".", "3", ".", "4">>,
      <<"U+00E9">>,
      <<"8", ".", "8", ".", "8", ".", "8", "NUL">>,
      <<"1", "0", ".", "0", ".", "0", ".", "1", "NUL">> }

Addresses == PublicAddrs \cup PrivateAddrs \cup LoopbackAddrs \cup NotAddrs

Pad(n) == [i \in 1..n |-> " "]

Padded(S) == {Pad(l) \o s \o Pad(r) : l \in 0..MaxPad, r \in 0..MaxPad, s \in S}

\* the str arguments of the one-argument functions
Strings == Padded(Addresses)

\* the candidates a fold reads: the strings that are valid IPs
Candidates == {s \in Addresses : Holds(is_valid_ip(s))}

\* 203.0.113.5, " 10.0.0.1", FE80::1, g, "", U+0000
ChainItems ==
    { <<"2", "0", "3", ".", "0", ".", "1", "1", "3", ".", "5">>,
      <<" ", "1", "0", ".", "0", ".", "0", ".", "1">>,
      <<"F", "E", "8", "0", ":", ":", "1">>,
      <<"g">>,
      <<>>,
      <<"NUL">> }

RECURSIVE ChainsOf(_)
ChainsOf(n) ==
    IF n = 1 THEN ChainItems
    ELSE {c \o <<",">> \o it : c \in ChainsOf(n - 1), it \in ChainItems}

\* header values of one to MaxChain comma-separated fields
Chains == UNION {ChainsOf(n) : n \in 1..MaxChain}

\* X_IP and its hyphen variant X-IP
MetaKeys == {<<"X", "_", "I", "P">>, <<"X", "-", "I", "P">>}

\* blank values and 8.8.8.8, with whitespace around them
MetaValues == Padded({<<>>, <<"8", ".", "8", ".", "8", ".", "8">>})

\* request.META: the keys present and their values
Metas == UNION {[D -> MetaValues] : D \in SUBSET MetaKeys}

(***************************************************************************)
(* State: the candidate a fold over header values holds, and the call in   *)
(* progress (function, arguments, outcome), "idle" between calls.  The     *)
(* functions share no state, so single calls (Spec) and the fold           *)
(* (FoldSpec) are explored apart.                                          *)
(***************************************************************************)
VARIABLES held, call

vars == <<held, call>>

Idle == [fn |-> "idle", a |-> None, b |-> None, ret |-> Returns(None)]

Init == held = None /\ call = Idle

\* a call of fn with arguments a, b (None when it has one argument) and
\* its outcome
Invoke(fn, a, b, ret) ==
    /\ call = Idle
    /\ call' = [fn |-> fn, a |-> a, b |-> b, ret |-> ret]
    /\ UNCHANGED held

CleanupIp == \E s \in Strings : Invoke("cleanup_ip", s, None, cleanup_ip(s))

IsValidIpv4 == \E s \in Strings : Invoke("is_valid_ipv4", s, None, is_valid_ipv4(s))

IsValidIpv6 == \E s \in Strings : Invoke("is_valid_ipv6", s, None, is_valid_ipv6(s))

IsValidIp == \E s \in Strings : Invoke("is_valid_ip", s, None, is_valid_ip(s))

GetRequestMeta ==
    \E m \in Metas : \E k \in MetaKeys :
        Invoke("get_request_meta", m, k, get_request_meta(m, k))

GetIpsFromString ==
    \E s \in Chains : Invoke("get_ips_from_string", s, None, get_ips_from_string(s))

GetIpInfo == \E s \in Strings : Invoke("get_ip_info", s, None, get_ip_info(s))

GetBestIp ==
    \E l \in Addresses \cup {None} : \E n \in Addresses :
        Invoke("get_best_ip", l, n, get_best_ip(l, n))

\* one step of the fold: held := get_best_ip(held, next)
Fold ==
    \E n \in Candidates :
        /\ call = Idle
        /\ call' = [fn |-> "fold", a |-> held, b |-> n, ret |-> get_best_ip(held, n)]
        /\ call'.ret.exc = ""
        /\ held' = call'.ret.val

\* the caller takes the outcome
Return == call # Idle /\ call' = Idle /\ UNCHANGED held

Next ==
    \/ CleanupIp
    \/ IsValidIpv4
    \/ IsValidIpv6
    \/ IsValidIp
    \/ GetRequestMeta
    \/ GetIpsFromString
    \/ GetIpInfo
    \/ GetBestIp
    \/ Return

\* single calls of the functions of the module
Spec == Init /\ [][Next]_vars

FoldNext == Fold \/ Return

\* a caller folding get_best_ip over the candidates it reads
FoldSpec == Init /\ [][FoldNext]_vars

(***************************************************************************)
(* Properties                                                              *)
(***************************************************************************)
\* the precedence tier of a candidate, computed on cleanup_ip of it:
\* 3 Public (no non-public prefix), 2 Private (a non-public prefix, not
\* Loopback), 1 Loopback (a loopback prefix), 0 no candidate
TierOf(x) ==
    IF x = None THEN 0
    ELSE LET c == cleanup_ip(x).val
         IN  IF startswith_any(c, IPWARE_LOOPBACK_PREFIX) THEN 1
             ELSE IF startswith_any(c, IPWARE_NON_PUBLIC_IP_PREFIX) THEN 2
             ELSE 3

\* the str x is a valid IPv4 or IPv6 address
ValidIp(x) == x # None /\ Holds(is_valid_ip(x))

\* C1: across a fold held := get_best_ip(held, next) over valid IPs that
\* starts with no candidate, the tier of the held candidate never decreases
\* from one step to the next.
NoDowngradeAcrossFold == [][TierOf(held') >= TierOf(held)]_vars

\* C1 witness: a fold step kept a held Public candidate against a Private
\* one.
FoldKeptPublicOverPrivate ==
    /\ call.fn = "fold"
    /\ TierOf(call.a) = 3
    /\ TierOf(call.b) = 2
    /\ held = call.a

\* C2: with no current candidate (last_ip None or the empty string),
\* get_best_ip returns next_ip, whatever next_ip is.
AdoptWhenNoCurrent ==
    (call.fn = "get_best_ip" /\ call.a \in {None, <<>>})
        => (call.ret.exc = "" /\ call.ret.val = call.b)

\* C3: for valid IPs last_ip and next_ip of the same tier, and whenever the
\* current candidate is Loopback, get_best_ip returns next_ip.
RightmostWinsOnEqualTier ==
    (/\ call.fn = "get_best_ip"
     /\ ValidIp(call.a)
     /\ ValidIp(call.b)
     /\ (TierOf(call.a) = TierOf(call.b) \/ TierOf(call.a) = 1))
        => (call.ret.exc = "" /\ call.ret.val = call.b)

\* C4: a current candidate whose normalized form is no valid IP is replaced
\* by next_ip, whatever next_ip is.
InvalidCurrentReplaced ==
    (/\ call.fn = "get_best_ip"
     /\ call.a # None
     /\ cleanup_ip(call.a).exc = ""
     /\ ~Holds(is_valid_ip(cleanup_ip(call.a).val)))
        => (call.ret.exc = "" /\ call.ret.val = call.b)

\* the non-empty trimmed lower-cased fields of a header value, in order
Tokens(s) ==
    LET f == split(s, ",")
    IN  SelectSeq([i \in DOMAIN f |-> lower(strip(f[i]))], LAMBDA x : x # <<>>)

\* what C5 says of a returned chain r for the header value s
ChainIsAllOrNothing(s, r) ==
    LET L == Tokens(s)
    IN  /\ \/ r = [ips |-> <<>>, count |-> 0]
           \/ r = [ips |-> L, count |-> Len(L)]
        /\ r.count > 0 <=> (/\ L # <<>>
                            /\ Holds(is_valid_ip(L[1]))
                            /\ Holds(is_valid_ip(L[Len(L)])))

\* C5: for every header value get_ips_from_string returns ([], 0) or all
\* the non-empty tokens with their count, the latter exactly when the first
\* and the last token are valid IPs.
ChainAllOrNothing ==
    call.fn = "get_ips_from_string"
        => (call.ret.exc = "" /\ ChainIsAllOrNothing(call.a, call.ret.val))

\* C5 on the calls that return: the chain is all or nothing.
ChainAllOrNothingWhenReturned ==
    (call.fn = "get_ips_from_string" /\ call.ret.exc = "")
        => ChainIsAllOrNothing(call.a, call.ret.val)

\* what C6 says of a returned pair r for the input s
IpInfoIsNormalized(s, r) ==
    LET c == cleanup_ip(s)
    IN  /\ IF c.exc = "" /\ Holds(is_valid_ip(c.val))
           THEN r = [ip |-> c.val, is_routable_ip |-> is_public_ip(c.val)]
           ELSE r = [ip |-> None, is_routable_ip |-> FALSE]
        /\ r.ip = None => ~r.is_routable_ip
        /\ r.ip # None => r.ip = c.val

\* C6: get_ip_info(s) returns (cleanup_ip(s), is_public_ip(cleanup_ip(s)))
\* when cleanup_ip(s) is a valid IP and (None, False) otherwise.
IpInfoResult ==
    call.fn = "get_ip_info"
        => (call.ret.exc = "" /\ IpInfoIsNormalized(call.a, call.ret.val))

\* C6 on the calls that return: the pair is the normalized address and its
\* routability, or (None, False).
IpInfoResultWhenReturned ==
    (call.fn = "get_ip_info" /\ call.ret.exc = "")
        => IpInfoIsNormalized(call.a, call.ret.val)

TotalFunctions ==
    {"cleanup_ip", "is_valid_ipv4", "is_valid_ipv6", "is_valid_ip",
     "get_ips_from_string", "get_ip_info"}

\* C7: cleanup_ip, the validators, get_ips_from_string and get_ip_info
\* raise for no str input.
NeverRaises == call.fn \in TotalFunctions => call.ret.exc = ""

\* C8: cleanup_ip(cleanup_ip(s)) equals cleanup_ip(s) for every str s.
CleanupIdempotent ==
    call.fn = "cleanup_ip"
        => (/\ call.ret.exc = ""
            /\ cleanup_ip(call.ret.val).exc = ""
            /\ cleanup_ip(call.ret.val).val = call.ret.val)

\* C8 on the calls that return: normalizing the result again changes
\* nothing.
CleanupIdempotentWhenReturned ==
    (call.fn = "cleanup_ip" /\ call.ret.exc = "")
        => (/\ cleanup_ip(call.ret.val).exc = ""
            /\ cleanup_ip(call.ret.val).val = call.ret.val)

\* the value is None or a str that is not empty and has no whitespace at
\* either end
TrimmedOrNone(v) ==
    v = None \/ (v # <<>> /\ v[1] \notin Whitespace /\ v[Len(v)] \notin Whitespace)

\* C9 as stated: the trimmed value of the key as given when that lookup
\* yields a non-blank value, else that of the hyphen variant when it holds
\* a non-blank value, else None.
MetaFallsBackWhenUnusable ==
    call.fn = "get_request_meta" =>
        LET m == call.a
            k == call.b
            h == replace_char(call.b, "_", "-")
            usable(x) == x \in DOMAIN m /\ strip(m[x]) # <<>>
            v == call.ret.val
        IN  /\ call.ret.exc = ""
            /\ TrimmedOrNone(v)
            /\ usable(k) => v = strip(m[k])
            /\ (~usable(k) /\ usable(h)) => v = strip(m[h])
            /\ (~usable(k) /\ ~usable(h)) => v = None

\* C9 amended: the value looked up is that of the key as given when the key
\* is present, else that of the hyphen variant when that is present, else
\* empty; the result is None when it is blank and the trimmed value
\* otherwise.
MetaFallsBackWhenAbsent ==
    call.fn = "get_request_meta" =>
        LET m == call.a
            k == call.b
            h == replace_char(call.b, "_", "-")
            looked == IF k \in DOMAIN m THEN m[k]
                      ELSE IF h \in DOMAIN m THEN m[h]
                      ELSE <<>>
            v == call.ret.val
        IN  /\ call.ret.exc = ""
            /\ TrimmedOrNone(v)
            /\ v = IF strip(looked) = <<>> THEN None ELSE strip(looked)

\* C9 witness: the key as given is absent and the value of the hyphen
\* variant came back trimmed.
MetaVariantReturned ==
    /\ call.fn = "get_request_meta"
    /\ call.b \notin DOMAIN call.a
    /\ replace_char(call.b, "_", "-") \in DOMAIN call.a
    /\ call.ret.val # None
    /\ call.ret.val # call.a[replace_char(call.b, "_", "-")]
    /\ call.ret.val = strip(call.a[replace_char(call.b, "_", "-")])

\* C10: cleanup_ip of a valid IP is a valid IP, so get_ip_info of a valid
\* IP returns an address.
CleanupPreservesValidity ==
    /\ (call.fn = "cleanup_ip" /\ ValidIp(call.a))
           => (call.ret.exc = "" /\ Holds(is_valid_ip(call.ret.val)))
    /\ (call.fn = "get_ip_info" /\ ValidIp(call.a))
           => (call.ret.exc = "" /\ call.ret.val.ip # None)

====
